---- MODULE Spec2Model ----
(***************************************************************************)
(* A model of nti.mailer._verp: the VERP token codec.                      *)
(*                                                                         *)
(* Byte strings are sequences of byte values 0..255 (ASCII codes); the     *)
(* comment beside each literal gives its text.  The functions of the       *)
(* module are operators computed as the code computes them; the actions    *)
(* below apply them to one piece of mail per round: the sender address is  *)
(* built by verp_from_recipients, the mail is on the wire, and a bounce    *)
(* address (the address as sent, or one altered on the way) is handed to   *)
(* principal_ids_from_verp.                                                *)
(*                                                                         *)
(* The module is Python 2 code (rfc822, str.translate): urllib.quote,      *)
(* urllib.unquote, hmac, base64 and binascii are modelled as Python 2.7    *)
(* computes them, itsdangerous.signer.Signer with its defaults (key         *)
(* derivation django-concat, separator '.', url-safe base64 signature).    *)
(*                                                                         *)
(* A second specification, SpecFree, calls the two functions in any order  *)
(* and remembers one earlier call beside the last one.                     *)
(***************************************************************************)
EXTENDS Integers, Sequences, FiniteSets, TLC

VARIABLES policy, byteorder, phase, wire, last, memo

vars == <<policy, byteorder, phase, wire, last, memo>>

(***************************************************************************)
(* Bytes and byte strings                                                  *)
(***************************************************************************)
PLUS == 43        \* '+'
AT == 64          \* '@'
SEP == 46         \* '.', itsdangerous.Signer's default sep
COMMA == 44       \* ','
PERCENT == 37     \* '%'
PAD == 61         \* '=', BASE64_PAD
DQUOTE == 34      \* '"'
LT == 60          \* '<'
GT == 62          \* '>'
SPACE == 32       \* ' '


Contains(s, c) == \E i \in 1..Len(s) : s[i] = c

Count(s, c) == Cardinality({i \in 1..Len(s) : s[i] = c})

\* Index of the first / last occurrence of c in s, 0 when there is none.
IndexOf(s, c) ==
  IF Contains(s, c) THEN CHOOSE i \in 1..Len(s) : s[i] = c /\ \A j \in 1..(i - 1) : s[j] # c
  ELSE 0

LastIndexOf(s, c) ==
  IF Contains(s, c)
  THEN CHOOSE i \in 1..Len(s) : s[i] = c /\ \A j \in (i + 1)..Len(s) : s[j] # c
  ELSE 0

\* s[from..to], empty when from > to.
Slice(s, from, to) == IF from > to THEN <<>> ELSE SubSeq(s, from, to)

\* str.rsplit(c, 1) of a string that contains c: <<before the last c, after it>>.
RSplit1(s, c) ==
  LET i == LastIndexOf(s, c)
  IN  <<Slice(s, 1, i - 1), Slice(s, i + 1, Len(s))>>

\* str.split(c): the pieces between the occurrences of c (one piece when none).
RECURSIVE Split(_, _)
Split(s, c) ==
  LET i == IndexOf(s, c)
  IN  IF i = 0 THEN <<s>>
      ELSE <<Slice(s, 1, i - 1)>> \o Split(Slice(s, i + 1, Len(s)), c)

RECURSIVE Xor(_, _)
Xor(a, b) ==
  IF a = 0 THEN b
  ELSE IF b = 0 THEN a
  ELSE (((a % 2) + (b % 2)) % 2) + 2 * Xor(a \div 2, b \div 2)

(***************************************************************************)
(* _InsecureAdlerCRC32Digest                                               *)
(***************************************************************************)
ADLER_MOD == 65521

\* The checksum is kept as its two 16-bit halves, [hi |-> b, lo |-> a] for
\* the 32-bit value b * 65536 + a.
AdlerStep(crc, byte) ==
  LET a2 == (crc.lo + byte) % ADLER_MOD
  IN  [hi |-> (crc.hi + a2) % ADLER_MOD, lo |-> a2]

\* The bytes s[from..to] are folded in, in order, one byte at a time.  The
\* range is halved, and the left half is evaluated (the test on left.lo is
\* always true) before the right half starts, to keep the evaluation shallow.
RECURSIVE AdlerFold(_, _, _, _)
AdlerFold(s, from, to, crc) ==
  IF from > to THEN crc
  ELSE IF from = to THEN AdlerStep(crc, s[from])
  ELSE LET mid == (from + to) \div 2
           left == AdlerFold(s, from, mid, crc)
       IN  IF left.lo >= 0 THEN AdlerFold(s, mid + 1, to, left) ELSE left

\* zlib.adler32(data)
Adler32(s) == AdlerFold(s, 1, Len(s), [hi |-> 0, lo |-> 1])

\* struct.pack('i', crc): four bytes in the byte order of the machine; the
\* signed and the unsigned reading of the 32 bits pack to the same bytes.
PackI(crc, order) ==
  LET le == << crc.lo % 256, crc.lo \div 256, crc.hi % 256, crc.hi \div 256 >>
  IN  IF order = "little" THEN le ELSE << le[4], le[3], le[2], le[1] >>

digest_size == 4
block_size == 64

DigestNew(init) == [val |-> init]

DigestCopy(d) == DigestNew(d.val)

DigestUpdate(d, v) == [d EXCEPT !.val = d.val \o v]

DigestDigest(d, order) == PackI(Adler32(d.val), order)

(***************************************************************************)
(* base64 (Python 2.7 base64.urlsafe_b64encode / urlsafe_b64decode over    *)
(* binascii), as itsdangerous base64_encode / base64_decode use them       *)
(***************************************************************************)
\* The URL-safe alphabet: A-Z a-z 0-9 - _
B64Char(v) ==
  IF v < 26 THEN 65 + v
  ELSE IF v < 52 THEN 97 + (v - 26)
  ELSE IF v < 62 THEN 48 + (v - 52)
  ELSE IF v = 62 THEN 45 ELSE 95

\* urlsafe_b64decode maps '-' to '+' and '_' to '/' and hands the string to
\* binascii.a2b_base64, whose table also knows '+' and '/': -1 for a byte
\* outside the alphabet.
B64Value(c) ==
  IF c >= 65 /\ c <= 90 THEN c - 65
  ELSE IF c >= 97 /\ c <= 122 THEN c - 97 + 26
  ELSE IF c >= 48 /\ c <= 57 THEN c - 48 + 52
  ELSE IF c = 45 \/ c = 43 THEN 62
  ELSE IF c = 95 \/ c = 47 THEN 63
  ELSE -1

RECURSIVE B64EncodeFrom(_, _)
B64EncodeFrom(s, i) ==
  LET n == Len(s) - i + 1
  IN  IF n <= 0 THEN <<>>
      ELSE IF n = 1
      THEN << B64Char(s[i] \div 4), B64Char((s[i] % 4) * 16), PAD, PAD >>
      ELSE IF n = 2
      THEN << B64Char(s[i] \div 4),
              B64Char((s[i] % 4) * 16 + (s[i + 1] \div 16)),
              B64Char((s[i + 1] % 16) * 4), PAD >>
      ELSE << B64Char(s[i] \div 4),
              B64Char((s[i] % 4) * 16 + (s[i + 1] \div 16)),
              B64Char((s[i + 1] % 16) * 4 + (s[i + 2] \div 64)),
              B64Char(s[i + 2] % 64) >> \o B64EncodeFrom(s, i + 3)

\* bytes.strip(b'=')
RECURSIVE StripPad(_)
StripPad(s) ==
  IF s = <<>> THEN s
  ELSE IF s[1] = PAD THEN StripPad(Tail(s))
  ELSE IF s[Len(s)] = PAD THEN StripPad(SubSeq(s, 1, Len(s) - 1))
  ELSE s

\* itsdangerous.base64_encode
base64_encode(s) == StripPad(B64EncodeFrom(s, 1))

Pow2(n) == IF n = 0 THEN 1 ELSE IF n = 2 THEN 4 ELSE IF n = 4 THEN 16 ELSE 64

\* binascii_find_valid(s + i, len - i, num): the (num+1)-th byte of the table
\* (the pad is one) from position i on, -1 when there is none.
RECURSIVE FindValid(_, _, _)
FindValid(s, i, num) ==
  IF i > Len(s) THEN -1
  ELSE IF s[i] <= 127 /\ (B64Value(s[i]) # -1 \/ s[i] = PAD)
       THEN IF num = 0 THEN s[i] ELSE FindValid(s, i + 1, num - 1)
       ELSE FindValid(s, i + 1, num)

\* binascii.a2b_base64: bytes outside the alphabet are skipped, a pad ends
\* the input only where a quad may end, and bits left over are an error.
RECURSIVE A2B(_, _, _, _, _, _)
A2B(s, i, quad_pos, leftbits, leftchar, out) ==
  IF i > Len(s)
  THEN [ok |-> leftbits = 0, bytes |-> out]
  ELSE LET ch == s[i]
       IN  IF ch > 127 \/ ch = 13 \/ ch = 10 \/ ch = SPACE
           THEN A2B(s, i + 1, quad_pos, leftbits, leftchar, out)
           ELSE IF ch = PAD
           THEN IF quad_pos < 2 \/ (quad_pos = 2 /\ FindValid(s, i, 1) # PAD)
                THEN A2B(s, i + 1, quad_pos, leftbits, leftchar, out)
                ELSE [ok |-> TRUE, bytes |-> out]
           ELSE IF B64Value(ch) = -1
           THEN A2B(s, i + 1, quad_pos, leftbits, leftchar, out)
           ELSE LET lc == leftchar * 64 + B64Value(ch)
                    lb == leftbits + 6
                IN  IF lb >= 8
                    THEN A2B(s, i + 1, (quad_pos + 1) % 4, lb - 8,
                             lc % Pow2(lb - 8),
                             Append(out, (lc \div Pow2(lb - 8)) % 256))
                    ELSE A2B(s, i + 1, (quad_pos + 1) % 4, lb, lc, out)

\* itsdangerous.base64_decode: pads to a multiple of four, then decodes.
base64_decode(s) ==
  A2B(s \o [k \in 1..((4 - (Len(s) % 4)) % 4) |-> PAD], 1, 0, 0, 0, <<>>)

(***************************************************************************)
(* urllib.quote / urllib.unquote (Python 2.7)                              *)
(***************************************************************************)
\* A quote that leaves '+' alone, as one with safe='/+' would.
IsSafeOrPlus(c) ==
  \/ c >= 65 /\ c <= 90
  \/ c >= 97 /\ c <= 122
  \/ c >= 48 /\ c <= 57
  \/ c \in {95, 46, 45, 47, PLUS}

\* always_safe ('A-Z a-z 0-9 _ . -') and the default safe='/'
IsSafe(c) ==
  \/ c >= 65 /\ c <= 90
  \/ c >= 97 /\ c <= 122
  \/ c >= 48 /\ c <= 57
  \/ c \in {95, 46, 45, 47}

HexDigit(d) == IF d < 10 THEN 48 + d ELSE 55 + d

HexValue(c) ==
  IF c >= 48 /\ c <= 57 THEN c - 48
  ELSE IF c >= 65 /\ c <= 70 THEN c - 55
  ELSE IF c >= 97 /\ c <= 102 THEN c - 87
  ELSE -1

RECURSIVE QuoteFrom(_, _)
QuoteFrom(s, i) ==
  IF i > Len(s) THEN <<>>
  ELSE (IF IsSafe(s[i]) THEN <<s[i]>>
        ELSE <<PERCENT, HexDigit(s[i] \div 16), HexDigit(s[i] % 16)>>)
       \o QuoteFrom(s, i + 1)

quote(s) == QuoteFrom(s, 1)

RECURSIVE UnquoteFrom(_, _)
UnquoteFrom(s, i) ==
  IF i > Len(s) THEN <<>>
  ELSE IF /\ s[i] = PERCENT
          /\ i + 2 <= Len(s)
          /\ HexValue(s[i + 1]) # -1
          /\ HexValue(s[i + 2]) # -1
       THEN <<HexValue(s[i + 1]) * 16 + HexValue(s[i + 2])>> \o UnquoteFrom(s, i + 3)
       ELSE <<s[i]>> \o UnquoteFrom(s, i + 1)

unquote(s) == UnquoteFrom(s, 1)

(***************************************************************************)
(* hmac.HMAC (Python 2.7) over the digest class                            *)
(***************************************************************************)
IPAD == 54        \* 0x36
OPAD == 92        \* 0x5C

HmacKeyBlock(key, order) ==
  LET k == IF Len(key) > block_size THEN DigestDigest(DigestNew(key), order) ELSE key
  IN  k \o [i \in 1..(block_size - Len(k)) |-> 0]

Translate(block, pad) == [i \in 1..Len(block) |-> Xor(block[i], pad)]

\* hmac.new(key, msg=value, digestmod=digest_method).digest()
HmacDigest(key, value, order) ==
  LET block == HmacKeyBlock(key, order)
      outer == DigestUpdate(DigestNew(<<>>), Translate(block, OPAD))
      inner == DigestUpdate(DigestUpdate(DigestNew(<<>>), Translate(block, IPAD)), value)
      h     == DigestUpdate(DigestCopy(outer), DigestDigest(inner, order))
  IN  DigestDigest(h, order)

(***************************************************************************)
(* itsdangerous.Signer                                                     *)
(***************************************************************************)
SALT == <<101, 109, 97, 105, 108, 32, 114, 101, 99, 105, 112, 105, 101, 110, 116>>
        \* 'email recipient'
SIGNER_TAG == <<115, 105, 103, 110, 101, 114>>      \* 'signer'

\* A signer is the secret it was built with; salt, sep and digest method are
\* the fixed ones of _make_signer.
Signer(secret_key) == [secret_key |-> secret_key, sep |-> SEP]

\* Signer.derive_key, key_derivation 'django-concat'
derive_key(signer, order) ==
  DigestDigest(DigestNew(SALT \o SIGNER_TAG \o signer.secret_key), order)

\* Signer.get_signature(value)
get_signature(signer, value, order) ==
  base64_encode(HmacDigest(derive_key(signer, order), value, order))

\* Signer.verify_signature(value, sig): a sig that does not decode is False
verify_signature(signer, value, sig, order) ==
  LET d == base64_decode(sig)
  IN  d.ok /\ d.bytes = HmacDigest(derive_key(signer, order), value, order)

\* Signer.unsign(signed_value): the value, or BadSignature raised
unsign(signer, signed, order) ==
  IF ~Contains(signed, signer.sep)
  THEN [raised |-> TRUE, value |-> <<>>]
  ELSE LET parts == RSplit1(signed, signer.sep)
       IN  IF verify_signature(signer, parts[1], parts[2], order)
           THEN [raised |-> FALSE, value |-> parts[1]]
           ELSE [raised |-> TRUE, value |-> <<>>]

(***************************************************************************)
(* Python values that may be None                                          *)
(***************************************************************************)
\* None where a string is expected: a sequence that is no byte string.
NoneStr == <<-1>>

\* Python truth of a string or None
Truthy(s) == s # NoneStr /\ s # <<>>

\* component.queryUtility(IMailerPolicy) when no policy is registered
NoPolicy == [registered |-> FALSE, secret |-> <<>>, sender |-> NoneStr]

(***************************************************************************)
(* rfc822.parseaddr / rfc822.dump_address_pair, for the addresses of the   *)
(* model: the empty string, a bare addr-spec of atom characters, and       *)
(* '"phrase" <addr-spec>'                                                  *)
(***************************************************************************)
parseaddr(s) ==
  IF s = <<>> THEN [realname |-> NoneStr, addr |-> NoneStr]
  ELSE IF s[1] = DQUOTE
  THEN LET q  == IndexOf(Tail(s), DQUOTE) + 1
           lt == IndexOf(s, LT)
           gt == LastIndexOf(s, GT)
       IN  [realname |-> Slice(s, 2, q - 1), addr |-> Slice(s, lt + 1, gt - 1)]
  ELSE [realname |-> <<>>, addr |-> s]

dump_address_pair(realname, addr) ==
  IF Truthy(realname) THEN <<DQUOTE>> \o realname \o <<DQUOTE, SPACE, LT>> \o addr \o <<GT>>
  ELSE addr

\* str.strip() of blanks
RECURSIVE Strip(_)
Strip(s) ==
  IF s = <<>> THEN s
  ELSE IF s[1] = SPACE THEN Strip(Tail(s))
  ELSE IF s[Len(s)] = SPACE THEN Strip(SubSeq(s, 1, Len(s) - 1))
  ELSE s

(***************************************************************************)
(* The functions of _verp.py                                               *)
(***************************************************************************)
DEFAULT_SECRET == <<36, 73, 100, 36>>          \* '$Id$'
NEXTTHOUGHT == <<78, 101, 120, 116, 84, 104, 111, 117, 103, 104, 116>>   \* 'NextThought'

\* A secret kept from the call before, when that call built a signer.
_get_signer_secret_cached(default_secret) ==
  IF last.op # "none" /\ last.result.secret # NoneStr THEN last.result.secret
  ELSE IF policy.registered THEN policy.secret ELSE default_secret

_get_signer_secret(default_secret) ==
  IF policy.registered THEN policy.secret ELSE default_secret

_make_signer(default_key) == Signer(_get_signer_secret(default_key))

_get_default_sender == IF policy.registered THEN policy.sender ELSE NoneStr

_find_default_realname ==
  LET default_sender == _get_default_sender
      realname == IF Truthy(default_sender)
                  THEN Strip(parseaddr(default_sender).realname)
                  ELSE NoneStr
  IN  IF Truthy(realname) THEN realname ELSE NEXTTHOUGHT

__make_signer(default_key) ==
  IF ~Truthy(default_key) THEN _make_signer(DEFAULT_SECRET)
  ELSE _make_signer(default_key)

_sign(signer, principal_ids) ==
  LET sig == get_signature(signer, principal_ids, byteorder)
  IN  quote(principal_ids) \o <<signer.sep>> \o sig

\* The address string, or ValueError raised.
realname_from_recipients(fromaddr) ==
  LET p == parseaddr(fromaddr)
  IN  IF ~Truthy(p.realname) /\ ~Truthy(p.addr)
      THEN [err |-> "ValueError", value |-> <<>>]
      ELSE [err |-> "none",
            value |-> dump_address_pair(
                        IF Truthy(p.realname) THEN p.realname ELSE _find_default_realname,
                        p.addr)]

\* The principals of all the recipients, addressable or not.
PrincipalsOfAll(recipients) ==
  { [name |-> recipients[i].name, id |-> recipients[i].id] :
      i \in { j \in 1..Len(recipients) : recipients[j].has_principal } }

\* A recipient is [addressable, has_principal, name, id]: whether it adapts to
\* IEmailAddressable, whether it adapts to IPrincipal, and the principal it
\* adapts to.  principals: the set of principal objects of the recipients.
Principals(recipients) ==
  { [name |-> recipients[i].name, id |-> recipients[i].id] :
      i \in { j \in 1..Len(recipients) :
                recipients[j].addressable /\ recipients[j].has_principal } }

PrincipalIds(recipients) == { x.id : x \in Principals(recipients) }

\* [err, value]: the address returned or the error raised; with it the secret
\* the signer was built with (NoneStr when none was built), the token that
\* was spliced in (NoneStr when none was) and the address before the splice.
verp_from_recipients(fromaddr, recipients, default_key) ==
  LET rn == realname_from_recipients(fromaddr)
  IN  IF rn.err # "none"
      THEN [err |-> rn.err, value |-> <<>>, secret |-> NoneStr, token |-> NoneStr,
            addr |-> NoneStr]
      ELSE
        LET p == parseaddr(rn.value)
            principal_ids == PrincipalIds(recipients)
        IN  IF Cardinality(principal_ids) = 1
            THEN LET principal_id == CHOOSE x \in principal_ids : TRUE
                     signer == __make_signer(default_key)
                     token == _sign(signer, principal_id)
                     parts == Split(p.addr, AT)
                 IN  IF Len(parts) # 2
                     THEN [err |-> "ValueError", value |-> <<>>,
                           secret |-> signer.secret_key, token |-> NoneStr, addr |-> p.addr]
                     ELSE [err |-> "none",
                           value |-> dump_address_pair(p.realname,
                                       parts[1] \o <<PLUS>> \o token \o <<AT>> \o parts[2]),
                           secret |-> signer.secret_key, token |-> token, addr |-> p.addr]
            ELSE [err |-> "none", value |-> dump_address_pair(p.realname, p.addr),
                  secret |-> NoneStr, token |-> NoneStr, addr |-> p.addr]

\* A handler that lets BadSignature through.
except_nothing(signer) ==
  [err |-> "BadSignature", ids |-> <<>>, raised |-> TRUE, secret |-> signer.secret_key]

\* except BadSignature: return ()
except_BadSignature(signer) ==
  [err |-> "none", ids |-> <<>>, raised |-> TRUE, secret |-> signer.secret_key]

\* addr.rsplit('+', 1)[1].split('@')[0] of an addr that contains '+'
TokenRegion(addr) == Split(RSplit1(addr, PLUS)[2], AT)[1]

\* [err, ids]: the tuple of ids returned (<<>> for ()); with it whether unsign
\* raised BadSignature and the secret the signer was built with.
principal_ids_from_verp(fromaddr, default_key) ==
  IF ~Truthy(fromaddr) \/ ~Contains(fromaddr, PLUS)
  THEN [err |-> "none", ids |-> <<>>, raised |-> FALSE, secret |-> NoneStr]
  ELSE
    LET addr == parseaddr(fromaddr).addr
    IN  IF ~Contains(addr, PLUS)
        THEN [err |-> "none", ids |-> <<>>, raised |-> FALSE, secret |-> NoneStr]
        ELSE
          LET signer == __make_signer(default_key)
              signed_and_encoded == TokenRegion(addr)
          IN  IF ~Contains(signed_and_encoded, signer.sep)
              THEN [err |-> "none", ids |-> <<>>, raised |-> FALSE,
                    secret |-> signer.secret_key]
              ELSE
                LET parts == RSplit1(signed_and_encoded, signer.sep)
                    decoded_pids == unquote(parts[1])
                    signed == decoded_pids \o <<signer.sep>> \o parts[2]
                    u == unsign(signer, signed, byteorder)
                IN  IF u.raised
                    THEN except_BadSignature(signer)
                    ELSE [err |-> "none", ids |-> Split(u.value, COMMA), raised |-> FALSE,
                          secret |-> signer.secret_key]

(***************************************************************************)
(* Inputs                                                                  *)
(***************************************************************************)
MaxRecipients == 2      \* recipients per call
MaxLabels == 2          \* '+label's already in the local part of fromaddr

\* The registered IMailerPolicy: none, one with an empty secret and no
\* default sender, one with the secret 'p' and a default sender.
Policies ==
  { NoPolicy,
    [registered |-> TRUE, secret |-> <<>>, sender |-> NoneStr],
    [registered |-> TRUE, secret |-> <<112>>, sender |-> <<34, 83, 105, 116, 101, 34, 32, 60, 115, 64, 120, 62>>] }
    \* '"Site" <s@x>'

\* default_key: None, '', '$Id$', 'k'
Keys == { NoneStr, <<>>, DEFAULT_SECRET, <<107>> }

RECURSIVE Labelled(_)
Labelled(n) == IF n = 0 THEN <<117>> ELSE Labelled(n - 1) \o <<PLUS, 108>>

\* fromaddr: '', 'ux', '"N" <u@x>', and 'u@x', 'u+l@x', 'u+l+l@x', ...
FromAddrs ==
  { <<>>, <<117, 120>>, <<34, 78, 34, 32, 60, 117, 64, 120, 62>> }
  \cup { Labelled(n) \o <<AT, 120>> : n \in 0..MaxLabels }

\* Principal ids: 'a', 'a,b', '+.% '
Recipient(addressable, has_principal, name, id) ==
  [addressable |-> addressable, has_principal |-> has_principal, name |-> name, id |-> id]

RecipientPool ==
  { Recipient(TRUE, TRUE, "P1", <<97>>),
    Recipient(TRUE, TRUE, "P2", <<97>>),
    Recipient(TRUE, TRUE, "P3", <<97, COMMA, 98>>),
    Recipient(TRUE, TRUE, "P4", <<PLUS, SEP, PERCENT, SPACE>>),
    Recipient(FALSE, TRUE, "P5", <<122>>),
    Recipient(TRUE, FALSE, "", <<>>) }

RecipientLists == UNION { [1..n -> RecipientPool] : n \in 0..MaxRecipients }

\* Bytes a signature byte is replaced by: 'B' 'R' 'h' 'x' (each differs from
\* one of 'A' 'Q' 'g' 'w' in the low four bits only), '!' and '='.
TamperChars == { 66, 82, 104, 120, 33, PAD }

\* Addresses that carry no token: '', 'u@x', '"a+b" <u@x>', 'u+tok@x',
\* and 'u+a.AAAAAA@x', whose signature is not the one of 'a'.
OddAddresses ==
  { <<>>, <<117, AT, 120>>, <<34, 97, 43, 98, 34, 32, 60, 117, 64, 120, 62>>,
    <<117, 43, 116, 111, 107, 64, 120>>, <<117, 43, 97, 46, 65, 65, 65, 65, 65, 65, 64, 120>> }

NoMail == [present |-> FALSE]
NoCall == [op |-> "none"]

\* The bounce addresses a mail on the wire may come back as.
Intact(w) == [kind |-> "intact", pos |-> 0, ch |-> 0, text |-> w.value]

SigLen(w) == Len(RSplit1(w.token, SEP)[2])

Tampered(w) ==
  LET at == LastIndexOf(w.value, AT)
      n  == SigLen(w)
  IN  { [kind |-> "tamper", pos |-> i, ch |-> c,
         text |-> [w.value EXCEPT ![at - n - 1 + i] = c]] :
          <<i, c>> \in { ic \in (1..n) \X TamperChars : w.value[at - n - 1 + ic[1]] # ic[2] } }

Stripped(w) ==
  LET addr == parseaddr(w.value).addr
  IN  [kind |-> "strip", pos |-> 0, ch |-> 0,
       text |-> Slice(addr, 1, LastIndexOf(addr, AT) - 1)]

Odd == { [kind |-> "odd", pos |-> 0, ch |-> 0, text |-> a] : a \in OddAddresses }

Candidates(w) ==
  {Intact(w)} \cup Odd
  \cup (IF w.token # NoneStr THEN Tampered(w) \cup {Stripped(w)} ELSE {})

Bounces == IF wire.present THEN Candidates(wire) ELSE {}

(***************************************************************************)
(* The state machine                                                       *)
(***************************************************************************)
Init ==
  /\ policy \in Policies
  /\ byteorder \in {"little", "big"}
  /\ phase = "idle"
  /\ wire = NoMail
  /\ last = NoCall
  /\ memo = NoCall

\* The site registers, replaces or removes its IMailerPolicy utility.
Reconfigure(p) ==
  /\ phase \in {"idle", "free"}
  /\ p # policy
  /\ policy' = p
  /\ UNCHANGED <<byteorder, phase, wire, last, memo>>

\* A mail is composed: verp_from_recipients builds its sender address.
Encode(fromaddr, recipients, default_key) ==
  /\ phase = "idle"
  /\ LET r == verp_from_recipients(fromaddr, recipients, default_key)
     IN  /\ last' = [op |-> "encode", fromaddr |-> fromaddr, recipients |-> recipients,
                     key |-> default_key, result |-> r]
         /\ wire' = IF r.err = "none"
                    THEN [present |-> TRUE, value |-> r.value, token |-> r.token,
                          ids |-> PrincipalIds(recipients), key |-> default_key,
                          secret |-> r.secret]
                    ELSE NoMail
  /\ phase' = "composed"
  /\ UNCHANGED <<policy, byteorder, memo>>

\* The mail leaves; only what is on the wire is kept.
Dispatch ==
  /\ phase = "composed"
  /\ wire.present
  /\ phase' = "sent"
  /\ last' = NoCall
  /\ UNCHANGED <<policy, byteorder, wire, memo>>

\* A bounce comes back and its address is handed to principal_ids_from_verp.
\* An altered signature is tried under the key of the mail only.
Decode(c, default_key) ==
  /\ phase = "sent"
  /\ c.kind = "tamper" => default_key = wire.key
  /\ last' = [op |-> "decode", how |-> [kind |-> c.kind, pos |-> c.pos, ch |-> c.ch],
              fromaddr |-> c.text, key |-> default_key,
              result |-> principal_ids_from_verp(c.text, default_key)]
  /\ phase' = "bounced"
  /\ UNCHANGED <<policy, byteorder, wire, memo>>

\* The round ends (also when composing the mail failed).
Reset ==
  /\ phase \in {"composed", "bounced"}
  /\ phase' = "idle"
  /\ wire' = NoMail
  /\ last' = NoCall
  /\ UNCHANGED <<policy, byteorder, memo>>

Next ==
  \/ \E p \in Policies : Reconfigure(p)
  \/ \E f \in FromAddrs, r \in RecipientLists, k \in Keys : Encode(f, r, k)
  \/ Dispatch
  \/ \E c \in Bounces, k \in Keys : Decode(c, k)
  \/ Reset

Spec == Init /\ [][Next]_vars

(***************************************************************************)
(* The claims                                                              *)
(***************************************************************************)
Encoded == phase = "composed" /\ last.op = "encode"
Decoded == phase = "bounced" /\ last.op = "decode"
Tokened == wire.present /\ wire.token # NoneStr

\* The ids returned are exactly this one id.
Yields(result, id) == result.err = "none" /\ result.ids = <<id>>
YieldsNothing(result) == result.err = "none" /\ result.ids = <<>>

\* C1: the address verp_from_recipients returned for one principal id (not
\* empty, no '@'), handed back unaltered to principal_ids_from_verp under the
\* same default_key, yields exactly that id.
C1_RoundTrip ==
  (Decoded /\ Tokened /\ last.how.kind = "intact" /\ last.key = wire.key)
    => \A id \in wire.ids :
         (id # <<>> /\ ~Contains(id, AT)) => Yields(last.result, id)

\* C2: with one byte of the signature replaced by a different byte, the
\* address yields nothing.
C2_TamperDetected ==
  (Decoded /\ Tokened /\ last.how.kind = "tamper") => YieldsNothing(last.result)

\* C3: an address made under one default_key yields nothing under any other
\* default_key, with or without a policy registered.  (None and '' both
\* stand for no key given: that pair is not counted as two keys.)
C3_SecretSensitive ==
  ( /\ Decoded /\ Tokened /\ last.how.kind = "intact"
    /\ last.key # wire.key
    /\ Truthy(last.key) \/ Truthy(wire.key) )
    => YieldsNothing(last.result)

C5_NoAtYieldsNothing ==
  (Decoded /\ ~Contains(last.fromaddr, AT)) => YieldsNothing(last.result)

\* C6: what principal_ids_from_verp cuts out of the address returned by
\* verp_from_recipients (after the last '+', before '@') is the token that
\* was spliced in, and the token holds neither '+' nor '@'.
C6_TokenIsolated ==
  (Encoded /\ last.result.err = "none" /\ last.result.token # NoneStr)
    => /\ TokenRegion(parseaddr(last.result.value).addr) = last.result.token
       /\ ~Contains(last.result.token, PLUS)
       /\ ~Contains(last.result.token, AT)

\* C6's case: the local part had two '+' already and the id holds a '+'.
C6_Witness ==
  /\ Encoded
  /\ last.result.err = "none"
  /\ last.result.token # NoneStr
  /\ Count(last.fromaddr, PLUS) >= 2
  /\ \E id \in wire.ids : Contains(id, PLUS)

\* The distinct ids of the recipients that are addressable and have a
\* principal, counted from the recipients themselves.
DistinctIds(recipients) ==
  { id \in { recipients[i].id : i \in 1..Len(recipients) } :
      \E i \in 1..Len(recipients) :
        /\ recipients[i].addressable
        /\ recipients[i].has_principal
        /\ recipients[i].id = id }

\* The address part of the string verp_from_recipients returned.
ResultAddr == parseaddr(last.result.value).addr

\* C7: a token is spliced in only when the recipients have exactly one
\* distinct id; then (the address being local@domain) it is spliced in after
\* the local part; with no id or several, and a fromaddr that is not empty,
\* nothing is raised and the address part comes back as it was.
C7_SingleId ==
  Encoded =>
    LET n == Cardinality(DistinctIds(last.recipients))
        addr == parseaddr(last.fromaddr).addr
    IN  /\ last.result.token # NoneStr => n = 1
        /\ (n # 1 /\ last.fromaddr # <<>>)
             => /\ last.result.err = "none"
                /\ last.result.token = NoneStr
                /\ ResultAddr = addr
        /\ (n = 1 /\ Count(addr, AT) = 1)
             => /\ last.result.err = "none"
                /\ last.result.token # NoneStr
                /\ ResultAddr = RSplit1(addr, AT)[1] \o <<PLUS>> \o last.result.token
                                  \o <<AT>> \o RSplit1(addr, AT)[2]

\* C7's case: two recipients, two principals, one id: the token is there.
C7_Witness ==
  /\ Encoded
  /\ Len(last.recipients) = 2
  /\ last.recipients[1].name # last.recipients[2].name
  /\ last.recipients[1].has_principal /\ last.recipients[2].has_principal
  /\ last.recipients[1].addressable /\ last.recipients[2].addressable
  /\ last.recipients[1].id = last.recipients[2].id
  /\ last.result.token # NoneStr

\* C8: verp_from_recipients raises for every fromaddr without '@'.
C8_NoAtRejected ==
  (Encoded /\ ~Contains(last.fromaddr, AT)) => last.result.err # "none"

\* C9: when the secret that reaches the signer is empty (the policy's secret
\* is empty, or no policy is registered and default_key is ''), the call fails
\* (with whatever error) instead of signing or verifying.
C9_EmptySecretRejected ==
  ( /\ Encoded \/ Decoded
    /\ last.result.secret # NoneStr
    /\ \/ policy.registered /\ policy.secret = <<>>
       \/ ~policy.registered /\ last.key = <<>> )
    => last.result.err # "none"

(***************************************************************************)
(* Calls in any order: the two functions are called freely, with the       *)
(* policy replaced in between; one earlier call is remembered.             *)
(***************************************************************************)
MaxOthers == 2          \* calls counted after the remembered one

\* Policies with one secret and two default senders, and none.
FreePolicies ==
  { NoPolicy,
    [registered |-> TRUE, secret |-> <<112>>, sender |-> NoneStr],
    [registered |-> TRUE, secret |-> <<112>>, sender |-> <<34, 83, 105, 116, 101, 34, 32, 60, 115, 64, 120, 62>>] }

FreeKeys == { NoneStr, <<107>> }

FreeFromAddrs == { <<117, AT, 120>> }        \* 'u@x'

FreeRecipientLists == { <<>>, <<Recipient(TRUE, TRUE, "P1", <<97>>)>> }

\* Bounce addresses: the address a mail to 'a' gets now under either key, and
\* two that carry no token, 'u@x' and 'u+tok@x'.
FreeBounces ==
  { verp_from_recipients(<<117, AT, 120>>, <<Recipient(TRUE, TRUE, "P1", <<97>>)>>, k).value :
      k \in FreeKeys }
  \cup { <<117, AT, 120>>, <<117, 43, 116, 111, 107, 64, 120>> }

FreeInit ==
  /\ policy \in FreePolicies
  /\ byteorder \in {"little", "big"}
  /\ phase = "free"
  /\ wire = NoMail
  /\ last = NoCall
  /\ memo = NoCall

\* The call just made is remembered, or counted as one made after the
\* remembered one.
Remember(call, keep) ==
  memo' = IF keep THEN [call |-> call, op |-> call.op, others |-> 0]
          ELSE IF memo.op = "none" THEN memo
          ELSE [memo EXCEPT !.others = IF @ < MaxOthers THEN @ + 1 ELSE @]

FreeEncode(fromaddr, recipients, default_key, keep) ==
  /\ phase = "free"
  /\ last' = [op |-> "encode", fromaddr |-> fromaddr, recipients |-> recipients,
              key |-> default_key, cfg |-> policy,
              result |-> verp_from_recipients(fromaddr, recipients, default_key)]
  /\ Remember(last', keep)
  /\ UNCHANGED <<policy, byteorder, phase, wire>>

FreeDecode(fromaddr, default_key, keep) ==
  /\ phase = "free"
  /\ last' = [op |-> "decode", fromaddr |-> fromaddr, recipients |-> <<>>,
              key |-> default_key, cfg |-> policy,
              result |-> principal_ids_from_verp(fromaddr, default_key)]
  /\ Remember(last', keep)
  /\ UNCHANGED <<policy, byteorder, phase, wire>>

FreeNext ==
  \/ \E p \in FreePolicies : Reconfigure(p)
  \/ \E f \in FreeFromAddrs, r \in FreeRecipientLists, k \in FreeKeys, keep \in BOOLEAN :
       FreeEncode(f, r, k, keep)
  \/ \E c \in FreeBounces, k \in FreeKeys, keep \in BOOLEAN : FreeDecode(c, k, keep)

SpecFree == FreeInit /\ [][FreeNext]_vars

\* The call just made has the function and the arguments of the remembered one.
SameCall ==
  /\ memo.op # "none"
  /\ last.op = memo.op
  /\ last.fromaddr = memo.call.fromaddr
  /\ last.recipients = memo.call.recipients
  /\ last.key = memo.call.key

====
